---- MODULE Spec2Model ----
(***************************************************************************)
(* cargo-sync-readme: the command-line driver (src/src/main.rs) together   *)
(* with the extraction / link-rewriting / marker-splicing pipeline it      *)
(* calls.  A document is a sequence of lines; a line is a pair             *)
(* <<text, eol>> whose eol is "LF" or "CRLF", so that equality of two      *)
(* documents is byte equality of the texts they stand for.                 *)
(***************************************************************************)
EXTENDS Integers, Sequences, FiniteSets, TLC

\* ------------------------------------------------------------------ bounds
\* Longest entry source file (in lines) drawn by the initial states.
MaxSrcLen == 4
\* Longest readme (in lines) drawn by the initial states.
MaxReadmeLen == 3

\* ------------------------------------------------------------- text model
MARKER == "<!-- cargo-sync-readme -->"
MARKER_START == "<!-- cargo-sync-readme start -->"
MARKER_END == "<!-- cargo-sync-readme end -->"

Line(t, e) == <<t, e>>
Text(l) == l[1]
Eol(l) == l[2]
\* The newline the tool generates under the --crlf flag.
Newline(crlf) == IF crlf THEN "CRLF" ELSE "LF"

SeqsUpTo(S, n) == UNION {[1..k -> S] : k \in 0..n}

\* ---------------------------------------------------------- Line Classifier
\* The content of an inner-doc-comment line with the comment marker and at
\* most one following space removed; "none" for a line that is no doc comment.
Classify(raw) ==
  CASE raw = "//! text" -> "text"
    [] raw = "//!text" -> "text"
    [] raw = "//! [fence]" -> "[fence]"
    [] raw = "//! [fence]rust" -> "[fence]rust"
    [] raw = "//! # hidden" -> "# hidden"
    [] raw = "//! [see](crate::foo::Bar)" -> "[see](crate::foo::Bar)"
    [] raw = "//! [see](other::Bar)" -> "[see](other::Bar)"
    [] raw = "//! [see](crate::)" -> "[see](crate::)"
    [] raw = "//! <!-- cargo-sync-readme -->" -> MARKER
    [] raw = "//! <!-- cargo-sync-readme start -->" -> MARKER_START
    [] raw = "//! <!-- cargo-sync-readme end -->" -> MARKER_END
    [] OTHER -> "none"

IsDocComment(raw) == Classify(raw) # "none"

\* A documentation line that consists solely of a code-fence delimiter:
\* three backticks, written [fence] here, optionally with a language tag.
IsFence(t) == t \in {"[fence]", "[fence]rust"}

\* A documentation line that carries the hidden-line marker.
IsHiddenMarked(t) == t \in {"# hidden"}

\* ------------------------------------------------------------ Doc Extractor
\* One pass over the entry source.  st is the scan state: "before_block",
\* "in_doc_run" or "in_fence"; reaching a non-doc line after the run has
\* started ends the scan.  A fence delimiter toggles the fence state and is
\* itself always retained; a hidden-marked line is dropped only inside a
\* fence and only when hidden lines are not shown.
RECURSIVE ScanSource(_, _, _, _)
ScanSource(src, st, show_hidden, acc) ==
  IF src = <<>> THEN acc
  ELSE LET raw == Head(src)
           t == Classify(raw)
       IN IF ~IsDocComment(raw)
            THEN IF st = "before_block"
                   THEN ScanSource(Tail(src), st, show_hidden, acc)
                   ELSE acc
          ELSE IF IsFence(t)
            THEN ScanSource(Tail(src),
                            IF st = "in_fence" THEN "in_doc_run" ELSE "in_fence",
                            show_hidden, Append(acc, t))
          ELSE IF st = "in_fence" /\ IsHiddenMarked(t) /\ ~show_hidden
            THEN ScanSource(Tail(src), st, show_hidden, acc)
          ELSE ScanSource(Tail(src),
                          IF st = "before_block" THEN "in_doc_run" ELSE st,
                          show_hidden, Append(acc, t))

\* The Doc Block: the retained lines, each ended by the requested newline.
extract_inner_doc(src, show_hidden, crlf) ==
  LET kept == ScanSource(src, "before_block", show_hidden, <<>>)
  IN [k \in 1..Len(kept) |-> Line(kept[k], Newline(crlf))]

\* ------------------------------------------------------------ Link Rewriter
crate_name == "mycrate"

\* A link destination of the exact form (crate::path::to::item) becomes the
\* docs.rs URL of the item; every other text passes through unchanged.
RewriteLink(t, crate) ==
  IF t = "[see](crate::foo::Bar)" /\ crate = "mycrate"
    THEN "[see](https://docs.rs/mycrate/latest/mycrate/foo/Bar)"
    ELSE t

\* A link candidate that resembles the rewritable form without matching it.
LooselyResembles(t) == t = "[see](crate::)"

RewriteLinks(doc, crate) ==
  [k \in 1..Len(doc) |-> Line(RewriteLink(Text(doc[k]), crate), Eol(doc[k]))]

Warns(doc) == \E k \in 1..Len(doc) : LooselyResembles(Text(doc[k]))

\* ----------------------------------------------------------- Marker Scanner
\* A marker stands on a line of its own; white space before and after it on
\* that line is tolerated.
TrimWhitespace(t) ==
  CASE t = "  <!-- cargo-sync-readme -->  " -> MARKER
    [] t = "  text  " -> "text"
    [] OTHER -> t

\* One left-to-right pass counting the three markers and remembering where
\* each was last seen.
RECURSIVE ScanMarkers(_, _, _)
ScanMarkers(readme, i, acc) ==
  IF i > Len(readme) THEN acc
  ELSE LET t == TrimWhitespace(Text(readme[i]))
       IN ScanMarkers(readme, i + 1,
            CASE t = MARKER ->
                   [acc EXCEPT !.n_placeholder = @ + 1, !.placeholder = i]
              [] t = MARKER_START ->
                   [acc EXCEPT !.n_start = @ + 1, !.start = i]
              [] t = MARKER_END ->
                   [acc EXCEPT !.n_end = @ + 1, !.end = i]
              [] OTHER -> acc)

\* The tagged result: placeholder-only, start/end pair, or error.
FindMarkers(readme) ==
  LET c == ScanMarkers(readme, 1,
             [n_placeholder |-> 0, placeholder |-> 0,
              n_start |-> 0, start |-> 0, n_end |-> 0, end |-> 0])
  IN IF c.n_start = 0 /\ c.n_end = 0
       THEN IF c.n_placeholder = 1
              THEN [kind |-> "placeholder", first |-> c.placeholder, last |-> c.placeholder]
              ELSE [kind |-> "error", first |-> 0, last |-> 0]
     ELSE IF c.n_start = 1 /\ c.n_end = 1 /\ c.start < c.end
       THEN [kind |-> "pair", first |-> c.start, last |-> c.end]
       ELSE [kind |-> "error", first |-> 0, last |-> 0]

\* ----------------------------------------------------- Document Transformer
\* The regenerated region: start marker, blank separator, Doc Block, blank
\* separator, end marker, in the requested newline convention.
Region(doc, crlf) ==
  <<Line(MARKER_START, Newline(crlf)), Line("", Newline(crlf))>>
    \o doc
    \o <<Line("", Newline(crlf)), Line(MARKER_END, Newline(crlf))>>

NoText == <<>>

\* Result of the library call: [ok, new, err, warned].
transform_readme(readme, doc, crate, crlf) ==
  LET rewritten == RewriteLinks(doc, crate)
      m == FindMarkers(readme)
  IN IF m.kind = "error"
       THEN [ok |-> FALSE, new |-> NoText, err |-> "MissingOrIllFormedMarkers",
             warned |-> Warns(doc)]
       ELSE [ok |-> TRUE,
             new |-> SubSeq(readme, 1, m.first - 1)
                       \o Region(rewritten, crlf)
                       \o SubSeq(readme, m.last + 1, Len(readme)),
             err |-> "",
             warned |-> Warns(doc)]

\* Reading the readme fails when the file cannot be opened.
read_readme(f) ==
  IF f.exists THEN [ok |-> TRUE, text |-> f.content, err |-> ""]
  ELSE [ok |-> FALSE, text |-> NoText, err |-> "CannotReadReadme"]

\* ------------------------------------------------------------- inputs
\* Entry sources over the plain documentation vocabulary.
BasicSourceLines == {"//! text", "//! [fence]", "//! # hidden", "fn main() {}"}
BasicSources == SeqsUpTo(BasicSourceLines, MaxSrcLen)

\* Entry sources whose documentation holds links and marker texts.
LinkSources ==
  { <<"//! text">>,
    <<"//! [see](crate::foo::Bar)", "//! [see](other::Bar)">>,
    <<"//!text", "//! [see](crate::)">>,
    <<"//! <!-- cargo-sync-readme end -->">>,
    <<"//! [fence]rust", "//! # hidden", "//! [fence]">> }

ReadmeLines ==
  { Line(MARKER, "LF"), Line(MARKER_START, "LF"), Line(MARKER_END, "LF"),
    Line("  <!-- cargo-sync-readme -->  ", "LF"),
    Line("text", "LF"), Line("text", "CRLF") }
Readmes == SeqsUpTo(ReadmeLines, MaxReadmeLen)

File(c) == [exists |-> TRUE, content |-> c]
NoFile == [exists |-> FALSE, content |-> NoText]

\* ---------------------------------------------------------------- state
VARIABLES
  pc,               \* position in main
  show_hidden_doc,  \* -z
  crlf,             \* --crlf
  check,            \* -c
  entry_src,        \* text of the entry point file
  file,             \* the readme on disk
  file0,            \* the readme on disk when the run started
  doc,              \* result of extract_inner_doc
  had_warnings,     \* set by the emit_warning closure
  transformation,   \* result of read_readme(..).and_then(transform_readme ..)
  stderr,           \* what the run printed to standard error
  exit_status,      \* the status the process ended with (meaningful at "exited")
  wrote,            \* write_all returned Ok in this run
  rerun             \* this run is the --check run that follows a written run

vars == <<pc, show_hidden_doc, crlf, check, entry_src, file, file0, doc,
          had_warnings, transformation, stderr, exit_status, wrote, rerun>>

NoTransformation == [tag |-> "none", old |-> NoText, new |-> NoText, err |-> ""]

\* Exit status of a Rust process that panics.
PanicStatus == 101

Init ==
  /\ pc = "from_args"
  /\ show_hidden_doc = FALSE
  /\ crlf = FALSE
  /\ check = FALSE
  /\ \/ /\ entry_src \in BasicSources
        /\ file \in {File(<<Line(MARKER, "LF")>>), NoFile}
     \/ /\ entry_src \in LinkSources
        /\ file \in {File(r) : r \in Readmes}
  /\ file0 = file
  /\ doc = NoText
  /\ had_warnings = FALSE
  /\ transformation = NoTransformation
  /\ stderr = <<>>
  /\ exit_status = 0
  /\ wrote = FALSE
  /\ rerun = FALSE

\* process::exit(code), or returning from main (code 0).
Exit(code) ==
  /\ pc' = "exited"
  /\ exit_status' = code

\* ------------------------------------------------------------------ main
\* let CliOpt::SyncReadme { .. } = CliOpt::from_args();
FromArgs ==
  /\ pc = "from_args"
  /\ show_hidden_doc' \in BOOLEAN
  /\ crlf' \in BOOLEAN
  /\ check' \in BOOLEAN
  /\ pc' = "current_dir"
  /\ UNCHANGED <<entry_src, file, file0, doc, had_warnings, transformation,
                 stderr, exit_status, wrote, rerun>>

\* if let Ok(pwd) = current_dir() { .. } else { eprintln!; process::exit(1) }
CurrentDir ==
  /\ pc = "current_dir"
  /\ \/ /\ pc' = "find_manifest"
        /\ UNCHANGED <<stderr, exit_status>>
     \/ /\ stderr' = Append(stderr, "nowhere good")
        /\ Exit(1)
  /\ UNCHANGED <<show_hidden_doc, crlf, check, entry_src, file, file0, doc,
                 had_warnings, transformation, wrote, rerun>>

\* match Manifest::find_manifest(pwd) { Ok(..) => .., Err(e) => exit(1) }
FindManifest ==
  /\ pc = "find_manifest"
  /\ \/ /\ pc' = "crate_name"
        /\ UNCHANGED <<stderr, exit_status>>
     \/ /\ stderr' = Append(stderr, "FindManifestError")
        /\ Exit(1)
  /\ UNCHANGED <<show_hidden_doc, crlf, check, entry_src, file, file0, doc,
                 had_warnings, transformation, wrote, rerun>>

\* A crate-name check that prints its diagnostic and carries on.
CrateNameNoExit ==
  /\ pc = "crate_name"
  /\ \/ /\ pc' = "entry_point"
        /\ UNCHANGED <<stderr, exit_status>>
     \/ /\ stderr' = Append(stderr, "Failed to get the name of the crate")
        /\ pc' = "entry_point"
        /\ UNCHANGED exit_status
  /\ UNCHANGED <<show_hidden_doc, crlf, check, entry_src, file, file0, doc,
                 had_warnings, transformation, wrote, rerun>>

\* match manifest.crate_name() { None => exit(1), Some(name) => name }
CrateName ==
  /\ pc = "crate_name"
  /\ \/ /\ pc' = "entry_point"
        /\ UNCHANGED <<stderr, exit_status>>
     \/ /\ stderr' = Append(stderr, "Failed to get the name of the crate")
        /\ Exit(1)
  /\ UNCHANGED <<show_hidden_doc, crlf, check, entry_src, file, file0, doc,
                 had_warnings, transformation, wrote, rerun>>

\* if let Some(entry_point) = manifest.entry_point(..) { .. } else { exit(1) }
EntryPoint ==
  /\ pc = "entry_point"
  /\ \/ /\ pc' = "extract_inner_doc"
        /\ UNCHANGED <<stderr, exit_status>>
     \/ /\ stderr' = Append(stderr, "CANNOT_FIND_ENTRY_POINT_ERR_STR")
        /\ Exit(1)
  /\ UNCHANGED <<show_hidden_doc, crlf, check, entry_src, file, file0, doc,
                 had_warnings, transformation, wrote, rerun>>

\* The call with its two boolean arguments exchanged.
ExtractCallSwappedFlags == extract_inner_doc(entry_src, crlf, show_hidden_doc)

\* extract_inner_doc(&entry_point, show_hidden_doc, crlf)
ExtractCall == extract_inner_doc(entry_src, show_hidden_doc, crlf)

\* let doc = extract_inner_doc(..); let mut had_warnings = false;
ExtractInnerDoc ==
  /\ pc = "extract_inner_doc"
  /\ doc' = ExtractCall
  /\ had_warnings' = FALSE
  /\ pc' = "transformation"
  /\ UNCHANGED <<show_hidden_doc, crlf, check, entry_src, file, file0,
                 transformation, stderr, exit_status, wrote, rerun>>

\* The call with the pair built as (new, readme).
TransformCallSwapped ==
  LET r == read_readme(file)
      t == transform_readme(r.text, doc, crate_name, crlf)
  IN IF ~r.ok
       THEN [tag |-> "err", old |-> NoText, new |-> NoText, err |-> r.err,
             warned |-> FALSE]
     ELSE IF t.ok
       THEN [tag |-> "ok", old |-> t.new, new |-> r.text, err |-> "",
             warned |-> t.warned]
       ELSE [tag |-> "err", old |-> NoText, new |-> NoText, err |-> t.err,
             warned |-> t.warned]

\* read_readme(&readme_path).and_then(|readme| transform_readme(..)
\*   .map(|new| (readme, new)))
TransformCall ==
  LET r == read_readme(file)
      t == transform_readme(r.text, doc, crate_name, crlf)
  IN IF ~r.ok
       THEN [tag |-> "err", old |-> NoText, new |-> NoText, err |-> r.err,
             warned |-> FALSE]
     ELSE IF t.ok
       THEN [tag |-> "ok", old |-> r.text, new |-> t.new, err |-> "",
             warned |-> t.warned]
       ELSE [tag |-> "err", old |-> NoText, new |-> NoText, err |-> t.err,
             warned |-> t.warned]

\* The emit_warning closure prints the warning and sets had_warnings.
Transformation ==
  /\ pc = "transformation"
  /\ LET c == TransformCall
     IN /\ transformation' = [tag |-> c.tag, old |-> c.old, new |-> c.new,
                              err |-> c.err]
        /\ had_warnings' = c.warned
        /\ stderr' = IF c.warned THEN Append(stderr, "warning") ELSE stderr
  /\ pc' = "match"
  /\ UNCHANGED <<show_hidden_doc, crlf, check, entry_src, file, file0, doc,
                 exit_status, wrote, rerun>>

\* The check arm: Ok((old_readme, new_readme)) if check
IsSynchronized == transformation.old = transformation.new

\* First arm: Ok((ref old_readme, ref new_readme)) if check
TakesCheckArm == transformation.tag = "ok" /\ check

\* A match whose second arm is tried without regard to the first arm's guard.
WriteArmUnguarded == transformation.tag = "ok"

\* A match whose second arm binds any result of a run without --check.
WriteArmAnyResult == ~check

\* Second arm: Ok((_, ref new_readme)), reached when the first arm's guard fails.
TakesWriteArm == transformation.tag = "ok" /\ ~check

\* Third arm: Err(e)
TakesErrArm == transformation.tag = "err"

\* match transformation { Ok(..) if check => .., Ok(..) => .., Err(e) => .. }
MatchTransformation ==
  /\ pc = "match"
  /\ \/ /\ TakesCheckArm
        /\ IF ~IsSynchronized
             THEN /\ stderr' = Append(stderr, "README is not synchronized!")
                  /\ Exit(1)
             ELSE /\ stderr' = stderr
                  /\ Exit(0)
     \/ /\ TakesWriteArm
        /\ pc' = "create"
        /\ UNCHANGED <<stderr, exit_status>>
     \/ /\ TakesErrArm
        /\ stderr' = Append(stderr, transformation.err)
        /\ Exit(0)
  /\ UNCHANGED <<show_hidden_doc, crlf, check, entry_src, file, file0, doc,
                 had_warnings, transformation, wrote, rerun>>

\* let mut file = File::create(readme_path).unwrap();
\* Creating truncates the file; a failure panics at the unwrap.
FileCreate ==
  /\ pc = "create"
  /\ \/ /\ file' = File(NoText)
        /\ pc' = "write_all"
        /\ UNCHANGED exit_status
     \/ /\ file' = file
        /\ Exit(PanicStatus)
  /\ UNCHANGED <<show_hidden_doc, crlf, check, entry_src, file0, doc,
                 had_warnings, transformation, stderr, wrote, rerun>>

\* let _ = file.write_all(new_readme.as_bytes());
\* The result is discarded: a failed write leaves a strict prefix on disk.
WriteAll ==
  /\ pc = "write_all"
  /\ \/ /\ file' = File(transformation.new)
        /\ wrote' = TRUE
     \/ /\ \E k \in 0..(Len(transformation.new) - 1) :
              file' = File(SubSeq(transformation.new, 1, k))
        /\ wrote' = FALSE
  /\ pc' = "had_warnings"
  /\ UNCHANGED <<show_hidden_doc, crlf, check, entry_src, file0, doc,
                 had_warnings, transformation, stderr, exit_status, rerun>>

\* if had_warnings { process::exit(2); }
HadWarnings ==
  /\ pc = "had_warnings"
  /\ IF had_warnings THEN Exit(2) ELSE Exit(0)
  /\ UNCHANGED <<show_hidden_doc, crlf, check, entry_src, file, file0, doc,
                 had_warnings, transformation, stderr, wrote, rerun>>

\* The command is run again with --check and otherwise the same arguments,
\* right after a run that wrote the readme.
CheckAgain ==
  /\ pc = "exited"
  /\ ~check
  /\ wrote
  /\ ~rerun
  /\ rerun' = TRUE
  /\ check' = TRUE
  /\ pc' = "current_dir"
  /\ file0' = file
  /\ doc' = NoText
  /\ had_warnings' = FALSE
  /\ transformation' = NoTransformation
  /\ stderr' = <<>>
  /\ exit_status' = 0
  /\ wrote' = FALSE
  /\ UNCHANGED <<show_hidden_doc, crlf, entry_src, file>>

Next ==
  \/ FromArgs
  \/ CurrentDir
  \/ FindManifest
  \/ CrateName
  \/ EntryPoint
  \/ ExtractInnerDoc
  \/ Transformation
  \/ MatchTransformation
  \/ FileCreate
  \/ WriteAll
  \/ HadWarnings
  \/ CheckAgain

Spec == Init /\ [][Next]_vars

\* ================================================================ claims
Last(q) == q[Len(q)]
Computed == transformation.tag # "none"

\* C1: in check mode the readme on disk is never created, truncated or
\* written: whatever the transformation returned and whether or not a warning
\* was emitted, the file is what it was when the run started.
C1_CheckLeavesFile == check => file = file0

\* A finished check run whose transformation produced a different text and
\* emitted a warning.
C1_Witness ==
  /\ pc = "exited"
  /\ check
  /\ transformation.tag = "ok"
  /\ ~IsSynchronized
  /\ had_warnings

\* C2: a check run that reached the transformation ends with status 0 exactly
\* when the readme was read, transformed, and the new text equals the old.
C2_CheckStatusIffSynchronized ==
  (pc = "exited" /\ check /\ Computed)
    => (exit_status = 0 <=> (transformation.tag = "ok" /\ IsSynchronized))

\* C3: when read_readme or transform_readme returns an error the readme on
\* disk is left as it was, with or without --check.
C3_ErrLeavesFile == transformation.tag = "err" => file = file0

\* A finished run without --check whose readme has two placeholder markers.
C3_Witness ==
  /\ pc = "exited"
  /\ ~check
  /\ transformation.tag = "err"
  /\ file0 = File(<<Line(MARKER, "LF"), Line(MARKER, "LF")>>)

\* C4: when read_readme or transform_readme returns an error the diagnostic
\* is printed and the process ends with a non-zero status.
C4_ErrIsFatal ==
  (pc = "exited" /\ transformation.tag = "err")
    => (exit_status # 0 /\ stderr # <<>> /\ Last(stderr) = transformation.err)

\* C5: without --check, a successful transformation that emitted a warning
\* still ends with the new text in the readme and status 2, and status 2 is
\* the status of no other run.
C5_WarningsDoNotBlockWrite ==
  /\ (pc = "exited" /\ ~check /\ transformation.tag = "ok" /\ had_warnings)
       => (file = File(transformation.new) /\ exit_status = 2)
  /\ (pc = "exited" /\ exit_status = 2)
       => (~check /\ transformation.tag = "ok" /\ had_warnings)

\* What main prints when the current directory, the manifest, the crate name
\* or the entry point is missing.
SetupDiagnostics ==
  { "nowhere good", "FindManifestError",
    "Failed to get the name of the crate", "CANNOT_FIND_ENTRY_POINT_ERR_STR" }

PrintsSetupDiagnostic ==
  /\ stderr' # stderr
  /\ stderr' # <<>>
  /\ Last(stderr') \in SetupDiagnostics

C9_SetupFailureStep ==
  /\ PrintsSetupDiagnostic
       => /\ pc' = "exited"
          /\ exit_status' = 1
          /\ doc' = NoText
          /\ transformation' = NoTransformation
          /\ file' = file0'
          /\ Len(stderr') = 1
  /\ pc' = "entry_point" => (pc = "crate_name" \/ pc = "entry_point")
  /\ pc \in {"current_dir", "find_manifest", "crate_name", "entry_point"}
       => UNCHANGED <<doc, transformation, file>>

\* C9: a step that prints a set-up diagnostic ends the run with status 1
\* with nothing extracted, read or written; the entry point is looked up only
\* after the crate name was found; and no set-up step touches the readme.
C9_SetupFailures == [][C9_SetupFailureStep]_vars

\* A run that ended because the crate name is missing.
C9_Witness ==
  /\ pc = "exited"
  /\ exit_status = 1
  /\ stderr = <<"Failed to get the name of the crate">>

\* C10: without --check, a run that ends with status 0 after a successful
\* transformation leaves exactly the new text in the readme.
C10_SuccessMeansWritten ==
  (pc = "exited" /\ ~check /\ transformation.tag = "ok" /\ exit_status = 0)
    => file = File(transformation.new)

\* Positions of the lines of document r whose text is marker m.
Positions(r, m) == {i \in 1..Len(r) : TrimWhitespace(Text(r[i])) = m}

\* The marker scan resolves a region: exactly one placeholder and no
\* start/end marker, or exactly one start marker followed by exactly one end.
Resolves(r) ==
  \/ /\ Positions(r, MARKER_START) = {}
     /\ Positions(r, MARKER_END) = {}
     /\ Cardinality(Positions(r, MARKER)) = 1
  \/ /\ Cardinality(Positions(r, MARKER_START)) = 1
     /\ Cardinality(Positions(r, MARKER_END)) = 1
     /\ \A a \in Positions(r, MARKER_START) :
          \A b \in Positions(r, MARKER_END) : a < b

\* The line the synchronized region begins at, and the line it ends at.
RegionFirst(r) ==
  IF Positions(r, MARKER_START) = {}
    THEN CHOOSE i \in Positions(r, MARKER) : TRUE
    ELSE CHOOSE i \in Positions(r, MARKER_START) : TRUE
RegionLast(r) ==
  IF Positions(r, MARKER_END) = {}
    THEN CHOOSE i \in Positions(r, MARKER) : TRUE
    ELSE CHOOSE i \in Positions(r, MARKER_END) : TRUE

\* C6: the pipeline applied to its own output, with the same documentation
\* and flags, returns that output again; and the --check run that follows a
\* run that wrote the readme finds the old text equal to the new text.
C6_Idempotent ==
  /\ transformation.tag = "ok"
       => LET again == transform_readme(transformation.new, doc, crate_name, crlf)
          IN again.ok /\ again.new = transformation.new
  /\ (rerun /\ Computed)
       => (transformation.tag = "ok" /\ IsSynchronized)
  /\ (rerun /\ Computed /\ pc = "exited")
       => /\ exit_status = 0
          /\ \A k \in 1..Len(stderr) : stderr[k] # "README is not synchronized!"

\* The same statement for documentation none of whose lines is a start or an
\* end marker.
DocHasMarkerLine ==
  \E k \in 1..Len(doc) : Text(doc[k]) \in {MARKER_START, MARKER_END}

IdempotentWithoutMarkerLines ==
  (transformation.tag = "ok" /\ ~DocHasMarkerLine)
    => LET again == transform_readme(transformation.new, doc, crate_name, crlf)
       IN again.ok /\ again.new = transformation.new

RunStart(src) ==
  IF \E i \in 1..Len(src) : IsDocComment(src[i])
    THEN CHOOSE i \in 1..Len(src) :
           IsDocComment(src[i]) /\ \A j \in 1..(i - 1) : ~IsDocComment(src[j])
    ELSE Len(src) + 1
RunEnd(src) ==
  IF RunStart(src) > Len(src) THEN Len(src)
  ELSE CHOOSE e \in RunStart(src)..Len(src) :
         /\ \A j \in RunStart(src)..e : IsDocComment(src[j])
         /\ (e = Len(src) \/ ~IsDocComment(src[e + 1]))
DocRun(src) ==
  [k \in 1..(RunEnd(src) - RunStart(src) + 1) |-> Classify(src[RunStart(src) + k - 1])]

\* Line i of the run lies inside a fenced code block: an odd number of fence
\* delimiters precede it and it is no delimiter itself.
InsideFence(run, i) ==
  /\ ~IsFence(run[i])
  /\ Cardinality({j \in 1..(i - 1) : IsFence(run[j])}) % 2 = 1

Retained(run, show) ==
  {i \in 1..Len(run) : ~(IsHiddenMarked(run[i]) /\ InsideFence(run, i) /\ ~show)}

\* The k-th retained line, in source order.
Nth(K, k) == CHOOSE i \in K : Cardinality({j \in K : j < i}) = k - 1

Extracted == pc \notin {"from_args", "current_dir", "find_manifest",
                        "crate_name", "entry_point", "extract_inner_doc"}
               /\ ~(pc = "exited" /\ ~Computed)

\* C8: the Doc Block is the leading doc-comment run, in source order, without
\* exactly those lines that carry the hidden marker, lie inside a fenced code
\* block, and are extracted with "show hidden" false.
C8_HiddenLinesFollowFence ==
  Extracted
    => LET run == DocRun(entry_src)
           K == Retained(run, show_hidden_doc)
       IN /\ Len(doc) = Cardinality(K)
          /\ \A k \in 1..Len(doc) :
               doc[k] = Line(run[Nth(K, k)], Newline(crlf))

\* A run with a hidden-marked line before the fence and one inside it,
\* extracted without -z: only the line inside is dropped.
C8_Witness ==
  /\ pc = "transformation"
  /\ ~show_hidden_doc
  /\ entry_src = <<"//! # hidden", "//! [fence]", "//! # hidden", "//! [fence]">>
  /\ Len(doc) = 3

====
